---- MODULE Spec2Model ----
(***************************************************************************)
(* sls (Simple Logging Service): the ingestion / broadcast engine.         *)
(*                                                                         *)
(* The model follows src/http/service.go (the revision with tail           *)
(* listeners, lines 133-441), src/http/log_chans.go (the subscriber table  *)
(* that revision is built with) and src/logfile.go.  A second              *)
(* specification, SpecHttp, replaces the subscriber table by the revision  *)
(* kept in src/http/http.go (pointer receivers, Send under RLock).         *)
(* StoreSpec lets time pass and runs rotateLogfile and Shutdown next to    *)
(* the POST handlers; RetSpec runs deleteOldFiles over a directory.        *)
(***************************************************************************)
EXTENDS Integers, Sequences, FiniteSets, TLC

\* ------------------------------------------------------------------ bounds
MaxReqs == 2    \* POST /log requests
MaxTails == 2   \* GET /log (tail) connections
MaxBatch == 2   \* lines per batch

Reqs == 1..MaxReqs
Tails == 1..MaxTails

\* The log lines a producer may submit: a string is a sequence of characters,
\* and a line comes without or with a trailing line terminator.
NL == "\n"
Line(k) == IF k % 2 = 1 THEN <<"a">> ELSE <<"b", NL>>

\* The request bodies that decode: JSON arrays of strings, here the arrays
\* [Line(1), ..., Line(n)].
Batches == { [k \in 1..n |-> Line(k)] : n \in 0..MaxBatch }

VARIABLES
    chans,      \* listeners.chans: map id -> *logChan (a tail connection)
    id,         \* listeners.id
    lmu,        \* listeners.mu (sync.RWMutex)
    lc,         \* the logChan of each tail connection: [id, open]
    mu,         \* srv.mu: 0 when free, else the request holding it
    logfile,    \* content of the active file: the chunks written, in order
    post,       \* the POST /log handlers
    get,        \* the GET /log handlers
    stream,     \* the streamLogs goroutines
    out,        \* what each tail client has read from its connection
    clock,      \* time.Now(), an instant counted in ticks
    zone,       \* the offset of time.Local from UTC, in ticks
    disk,       \* the log files of srv.dir: day of the name -> content
    handles,    \* the os.File handles opened so far: [name, open]
    slog,       \* srv.logfile: [fi, created]
    rot,        \* the goroutine of EnforceRetentionPolicy
    down,       \* Service.Shutdown has been called
    dir,        \* the names of the .log files deleteOldFiles finds in srv.dir
    ret,        \* a run of deleteOldFiles
    cl,         \* the Client of client.go: [buf, mu, errCh, flushInterval, url]
    gs,         \* the goroutines that call Log, flush and <-Err()
    wire,       \* the requests the Client has handed to c.client.Do, in order
    recs,       \* the errors received from the channel of Err(), in order
    main,       \* func main of cmd/sls after ListenAndServe has started
    mt,         \* execPostLog of the service that writes to several targets
    tg          \* the logData goroutines of that service, one per target

\* The variables of the client, of func main and of the service with targets.
ext == <<cl, gs, wire, recs, main, mt, tg>>

\* The variables of the file store and of retention, and those of ext.
aux == <<clock, zone, disk, handles, slog, rot, down, dir, ret, ext>>

vars == <<chans, id, lmu, lc, mu, logfile, post, get, stream, out, aux>>

\* ---------------------------------------------------------------- strings
HasSuffixNL(s) == Len(s) > 0 /\ s[Len(s)] = NL

RECURSIVE Flatten(_)
Flatten(ss) == IF ss = <<>> THEN <<>> ELSE Head(ss) \o Flatten(Tail(ss))

\* A chunk of text together with where it came from (request, position in
\* the batch); the origin is bookkeeping, the text is what the code handles.
Chunk(r, i, s) == [req |-> r, idx |-> i, text |-> s]

\* The bytes of the active file.
FileBytes == Flatten([k \in 1..Len(logfile) |-> logfile[k].text])

\* ------------------------------------------------------------------- maps
MapSet(m, k, v) == [x \in DOMAIN m \cup {k} |-> IF x = k THEN v ELSE m[x]]
MapDelete(m, k) == [x \in DOMAIN m \ {k} |-> m[x]]

\* ------------------------------------------------------------------- Init
\* key is the X-API-Key header of the request, fi the file handle its Write
\* goes to, err the error execPostLog returns ("" for nil).
IdlePost ==
    [pc |-> "idle", key |-> "", logs |-> <<>>, i |-> 0, pend |-> {}, to |-> 0,
     data |-> <<>>, fi |-> 0, n |-> 0, err |-> "", resp |-> 0,
     prior |-> {}, tails |-> {}]

\* ------------------------------------------------------------------- time
\* A tick is four hours.
Day == 6

\* The offsets of time.Local from UTC the service may run with.
Zones == {0 - 2, 0, 2}

\* NewLogfile: now := time.Now(); time.Date(now.Year(), now.Month(),
\* now.Day(), 0, 0, 0, 0, time.UTC).  Year, Month and Day are those of the
\* local time; the result is midnight UTC of that date.
LocalDate(now, z) == (now + z) \div Day
Truncate(now, z) == LocalDate(now, z) * Day

\* NewLogfile opens (O_CREATE|O_APPEND) the file named for that date: the
\* directory with the file in it, the new handle, the new Logfile.
Created(files, now, z) ==
    IF LocalDate(now, z) \in DOMAIN files THEN files
    ELSE files @@ (LocalDate(now, z) :> <<>>)
Opened(hs, now, z) == Append(hs, [name |-> LocalDate(now, z), open |-> TRUE])
NewLogfile(hs, now, z) == [fi |-> Len(hs) + 1, created |-> Truncate(now, z)]

\* deleteOldFiles before it is called: its argument dur, the directory it
\* found (dir0), its locals files, cutoff and the position of its loop (k), the
\* error it returns ("" for nil) and the files it has removed, in order.
IdleRun ==
    [pc |-> "idle", dur |-> 0, dir0 |-> {}, files |-> <<>>, k |-> 0,
     cutoff |-> 0, err |-> "", deleted |-> <<>>]

\* NewService at instant now in zone z; EnforceRetentionPolicy not yet run,
\* no retention run.
Boot(now, z) ==
    /\ clock = now
    /\ zone = z
    /\ disk = Created(<<>>, now, z)
    /\ handles = Opened(<<>>, now, z)
    /\ slog = NewLogfile(<<>>, now, z)
    /\ rot = [pc |-> "boot", due |-> 0]
    /\ down = FALSE
    /\ dir = {}
    /\ ret = IdleRun

\* No client, func main not waiting for a signal, no service with targets.
ClientIdle ==
    /\ cl = [buf |-> <<>>, mu |-> 0, errCh |-> "nil", flushInterval |-> 0,
             url |-> "ok", appended |-> <<>>]
    /\ gs = <<>>
    /\ wire = <<>>
    /\ recs = <<>>
MainIdle == main = [pc |-> "none"]
TargetsIdle == mt = [pc |-> "none"] /\ tg = <<>>
ExtIdle == ClientIdle /\ MainIdle /\ TargetsIdle

\* The service as NewService leaves it.
InitService ==
    /\ chans = <<>>
    /\ id = 0
    /\ lmu = [readers |-> {}, writer |-> 0, waiting |-> {}]
    /\ lc = [t \in Tails |-> [id |-> 0, open |-> FALSE]]
    /\ mu = 0
    /\ logfile = <<>>
    /\ post = [r \in Reqs |-> IdlePost]
    /\ get = [t \in Tails |-> "idle"]
    /\ stream = [t \in Tails |-> [pc |-> "none", l |-> <<>>]]
    /\ out = [t \in Tails |-> <<>>]

\* The service at an instant of a day in UTC; no day passes.
Init == InitService /\ Boot(Day, 0) /\ ExtIdle

\* ------------------------------------------------------ POST /log handler
\* Requests and connections are numbered in the order in which they arrive.
Arrives(pcs, k) == \A j \in 1..(k - 1) : pcs[j] # "idle"

\* The configured key (srv.apiKey) and the X-API-Key headers a caller may
\* send: the key, no header, another key.
apiKey == "secret"
Keys == {apiKey, "", "guess"}

\* subtle.ConstantTimeCompare: 1 when the two byte strings are equal, else 0.
ConstantTimeCompare(x, y) == IF x = y THEN 1 ELSE 0

\* A variant of isLoggedIn that lets every request through.
isLoggedInAlways(key) == TRUE

\* isLoggedIn: the next handler runs when the comparison yields 1.
isLoggedIn(key) == ConstantTimeCompare(apiKey, key) = 1

\* http.NotFound
StatusNotFound == 404

\* A variant of postLog that answers 200 "OK" whatever execPostLog returns.
postLogAlwaysOK(err) == 200

\* postLog: http.Error(w, err.Error(), http.StatusInternalServerError) when
\* execPostLog returns an error, else w.Write([]byte("OK")) (status 200).
postLog(err) == IF err # "" THEN 500 ELSE 200

\* isLoggedIn: the X-API-Key header differs from the configured key; the
\* handler is not called.
AuthFail(r) ==
    /\ post[r].pc = "idle"
    /\ Arrives([q \in Reqs |-> post[q].pc], r)
    /\ \E key \in Keys :
         /\ ~isLoggedIn(key)
         /\ post' = [post EXCEPT ![r].pc = "done", ![r].key = key,
                                   ![r].resp = StatusNotFound]
    /\ UNCHANGED <<chans, id, lmu, lc, mu, logfile, get, stream, out, aux>>

\* A variant of DecodeReturn that goes on with what had decoded.
DecodeReturnIgnoreErr(p) == [p EXCEPT !.pc = "loop", !.i = 1]

\* execPostLog: if err := json...Decode(&logs); err != nil { return ... },
\* and postLog answers.
DecodeReturn(p) ==
    IF p.err # "" THEN [p EXCEPT !.pc = "done", !.resp = postLog(p.err)]
    ELSE [p EXCEPT !.pc = "loop", !.i = 1]

\* execPostLog: the body does not decode.  Decode has filled logs with the
\* lines b that came before the error.
DecodeFail(r) ==
    /\ post[r].pc = "idle"
    /\ Arrives([q \in Reqs |-> post[q].pc], r)
    /\ \E key \in Keys, b \in Batches :
         /\ isLoggedIn(key)
         /\ post' = [post EXCEPT ![r] =
                      DecodeReturn([IdlePost EXCEPT !.key = key, !.logs = b,
                                                    !.err = "decode body"])]
    /\ UNCHANGED <<chans, id, lmu, lc, mu, logfile, get, stream, out, aux>>

\* execPostLog: the body decodes into logs; data := "".  prior and tails
\* record which requests had been answered and which tail connections were
\* open when this request arrived.
Decode(r, b) ==
    /\ post[r].pc = "idle"
    /\ Arrives([q \in Reqs |-> post[q].pc], r)
    /\ \E key \in Keys :
         /\ isLoggedIn(key)
         /\ post' = [post EXCEPT ![r] =
                      DecodeReturn([IdlePost EXCEPT !.key = key, !.logs = b,
                         !.prior = { q \in Reqs : post[q].pc = "done" },
                         !.tails = { t \in Tails : get[t] = "select" /\ lc[t].open }])]
    /\ UNCHANGED <<chans, id, lmu, lc, mu, logfile, get, stream, out, aux>>

\* logChans.Send (log_chans.go): s gets a line terminator when it has none.
SendText(s) == IF HasSuffixNL(s) THEN s ELSE Append(s, NL)

\* A variant of AddLine that puts the new line in front of the data.
AddLineInFront(data, c) == <<c>> \o data

\* data += l
AddLine(data, c) == Append(data, c)

\* The handler's record once Send has returned for line i: data += l, and
\* the loop moves to the next line.
SendReturn(p, r) ==
    [p EXCEPT !.pc = "loop", !.to = 0, !.i = @ + 1,
              !.data = AddLine(@, Chunk(r, p.i, p.logs[p.i]))]

\* One pass of the range loop is over: back in the loop, or out of Send.
EndPass(p, r) == IF p.pend = {} THEN SendReturn(p, r) ELSE [p EXCEPT !.pc = "range", !.to = 0]

\* for _, l := range logs { ... srv.listeners.Send(l) ...: Send starts to
\* range over the table.  No lock is taken.
Send(r) ==
    /\ post[r].pc = "loop"
    /\ post[r].i <= Len(post[r].logs)
    /\ post' = [post EXCEPT ![r] = EndPass([@ EXCEPT !.pend = DOMAIN chans], r)]
    /\ UNCHANGED <<chans, id, lmu, lc, mu, logfile, get, stream, out, aux>>

\* One iteration of `for _, lc := range l.chans`: an entry deleted before it
\* is reached is not produced; an open logChan is sent to.
RangeNext(r) ==
    /\ post[r].pc = "range"
    /\ \E k \in post[r].pend :
         IF k \in DOMAIN chans /\ lc[chans[k]].open
         THEN post' = [post EXCEPT ![r].pend = @ \ {k}, ![r].to = chans[k],
                                   ![r].pc = "chansend"]
         ELSE post' = [post EXCEPT ![r] = EndPass([@ EXCEPT !.pend = @ \ {k}], r)]
    /\ UNCHANGED <<chans, id, lmu, lc, mu, logfile, get, stream, out, aux>>

\* lc.ch <- s on the unbuffered channel: completes when streamLogs of that
\* logChan is receiving.
ChanSend(r) ==
    /\ post[r].pc = "chansend"
    /\ stream[post[r].to].pc = "recv"
    /\ stream' = [stream EXCEPT ![post[r].to] =
                    [pc |-> "write",
                     l |-> Chunk(r, post[r].i, SendText(post[r].logs[post[r].i]))]]
    /\ post' = [post EXCEPT ![r] = EndPass(@, r)]
    /\ UNCHANGED <<chans, id, lmu, lc, mu, logfile, get, out, aux>>

\* A variant of CanLock that never waits for the mutex.
CanLockAlways(r) == TRUE

\* srv.mu.Lock() blocks while another request holds the mutex.
CanLock(r) == mu = 0

Lock(r) ==
    /\ post[r].pc = "loop"
    /\ post[r].i > Len(post[r].logs)
    /\ CanLock(r)
    /\ mu' = r
    /\ post' = [post EXCEPT ![r].pc = "write", ![r].n = 0]
    /\ UNCHANGED <<chans, id, lmu, lc, logfile, get, stream, out, aux>>

\* srv.logfile.Write([]byte(data)): the operating system appends the bytes
\* piece by piece (logfile.go: "writes are atomic up to a certain size").
WritePiece(r) ==
    /\ post[r].pc = "write"
    /\ post[r].n + 1 < Len(post[r].data)
    /\ logfile' = Append(logfile, post[r].data[post[r].n + 1])
    /\ post' = [post EXCEPT ![r].n = @ + 1]
    /\ UNCHANGED <<chans, id, lmu, lc, mu, get, stream, out, aux>>

\* The last piece is written and Write returns nil: deferred Unlock, postLog
\* answers 200 "OK".
WriteOK(r) ==
    /\ post[r].pc = "write"
    /\ post[r].n + 1 >= Len(post[r].data)
    /\ logfile' = IF post[r].n < Len(post[r].data)
                  THEN Append(logfile, post[r].data[post[r].n + 1])
                  ELSE logfile
    /\ mu' = 0
    /\ post' = [post EXCEPT ![r].pc = "done", ![r].n = Len(post[r].data),
                              ![r].resp = postLog("")]
    /\ UNCHANGED <<chans, id, lmu, lc, get, stream, out, aux>>

\* Write returns an error (possibly after a short write): deferred Unlock,
\* postLog answers 500.
WriteErr(r) ==
    /\ post[r].pc = "write"
    /\ post[r].n < Len(post[r].data)
    /\ mu' = 0
    /\ post' = [post EXCEPT ![r].pc = "done", ![r].err = "write",
                              ![r].resp = postLog("write")]
    /\ UNCHANGED <<chans, id, lmu, lc, logfile, get, stream, out, aux>>

\* ------------------------------------------------------- GET /log handler
\* The requests that are ranging over the table right now.
Ranging == { r \in Reqs : post[r].pc \in {"range", "chansend"} }

\* logChans.NewChan (log_chans.go), called by getLog, which then starts
\* streamLogs.  The receiver is a copy of srv.listeners: l.id++ counts on the
\* copy, l.mu is the copy's mutex, l.chans is the shared map.  An entry
\* created while a Send ranges over the map may or may not be produced by
\* that range.
NewChan(t) ==
    /\ get[t] = "idle"
    /\ Arrives(get, t)
    /\ LET new == id + 1
       IN  /\ lc' = [lc EXCEPT ![t] = [id |-> new, open |-> FALSE]]
           /\ chans' = MapSet(chans, new, t)
           /\ \E seen \in SUBSET { r \in Ranging : new \notin DOMAIN chans } :
                post' = [r \in Reqs |->
                           IF r \in seen THEN [post[r] EXCEPT !.pend = @ \cup {new}]
                           ELSE post[r]]
    /\ get' = [get EXCEPT ![t] = "new"]
    /\ stream' = [stream EXCEPT ![t].pc = "recv"]
    /\ UNCHANGED <<id, lmu, mu, logfile, out, aux>>

\* isLoggedIn on GET /log: the X-API-Key header differs from the configured
\* key; http.NotFound, and getLog is not called.
GetAuthFail(t) ==
    /\ get[t] = "idle"
    /\ Arrives(get, t)
    /\ \E key \in Keys : ~isLoggedIn(key)
    /\ get' = [get EXCEPT ![t] = "notfound"]
    /\ UNCHANGED <<chans, id, lmu, lc, mu, logfile, post, stream, out, aux>>

\* getLog: lc.open = true, then the handler waits in select on errChan.
MarkOpen(t) ==
    /\ get[t] = "new"
    /\ lc' = [lc EXCEPT ![t].open = TRUE]
    /\ get' = [get EXCEPT ![t] = "select"]
    /\ UNCHANGED <<chans, id, lmu, mu, logfile, post, stream, out, aux>>

\* streamLogs: w.Write([]byte(l)) returns nil; f.Flush().  The write completes
\* when the client takes the bytes (main.go sets WriteTimeout: 0, so it waits
\* as long as the client takes).
StreamWrite(t) ==
    /\ stream[t].pc = "write"
    /\ out' = [out EXCEPT ![t] = Append(@, stream[t].l)]
    /\ stream' = [stream EXCEPT ![t] = [pc |-> "recv", l |-> <<>>]]
    /\ UNCHANGED <<chans, id, lmu, lc, mu, logfile, post, get, aux>>

\* streamLogs: w.Write returns an error (the client has closed the
\* connection, or the connection broke); errChan <- err
\* is received by getLog's select; streamLogs returns, getLog returns and
\* runs its deferred Delete next.
StreamWriteErr(t) ==
    /\ stream[t].pc = "write"
    /\ get[t] = "select"
    /\ stream' = [stream EXCEPT ![t] = [pc |-> "exit", l |-> <<>>]]
    /\ get' = [get EXCEPT ![t] = "defer"]
    /\ UNCHANGED <<chans, id, lmu, lc, mu, logfile, post, out, aux>>

\* logChans.Delete (log_chans.go): delete(l.chans, c.id); the mutex locked is
\* the copy's.
Delete(t) ==
    /\ get[t] = "defer"
    /\ chans' = MapDelete(chans, lc[t].id)
    /\ get' = [get EXCEPT ![t] = "done"]
    /\ UNCHANGED <<id, lmu, lc, mu, logfile, post, stream, out, aux>>

\* ------------------------------------------------------------------- Spec
PostStep(r) ==
    \/ AuthFail(r)
    \/ DecodeFail(r)
    \/ \E b \in Batches : Decode(r, b)
    \/ Send(r)
    \/ RangeNext(r)
    \/ ChanSend(r)
    \/ Lock(r)
    \/ WritePiece(r)
    \/ WriteOK(r)
    \/ WriteErr(r)

GetStep(t) ==
    \/ GetAuthFail(t)
    \/ NewChan(t)
    \/ MarkOpen(t)
    \/ StreamWrite(t)
    \/ StreamWriteErr(t)
    \/ Delete(t)

Next ==
    \/ \E r \in Reqs : PostStep(r)
    \/ \E t \in Tails : GetStep(t)

Spec == Init /\ [][Next]_vars

\* ------------------------------------------------------------ observation
\* The origins <<request, position>> of the chunks of a sequence that come
\* from the requests in R.
Origins(seq, R) ==
    LET kept == SelectSeq(seq, LAMBDA c : c.req \in R)
    IN  [k \in 1..Len(kept) |-> <<kept[k].req, kept[k].idx>>]

\* All lines of request r, in batch order.
AllOf(r) == [k \in 1..Len(post[r].logs) |-> <<r, k>>]

Increasing(tags) == \A j, k \in 1..Len(tags) : j < k => tags[j][2] < tags[k][2]

\* How often line k of request r has reached tail connection t.
Received(t, r, k) ==
    Cardinality({ j \in 1..Len(out[t]) : out[t][j].req = r /\ out[t][j].idx = k })
    + (IF stream[t].pc = "write" /\ stream[t].l.req = r /\ stream[t].l.idx = k THEN 1 ELSE 0)

\* Tail connection t is in the subscriber table.
Registered(t) == \E k \in DOMAIN chans : chans[k] = t

\* Tail connection t is connected and marked open, and no write to it has
\* failed.
Listening(t) == get[t] = "select" /\ lc[t].open

C2_SerializedWrites ==
    /\ \A j, k, l \in 1..Len(logfile) :
         (j < k /\ k < l /\ logfile[j].req = logfile[l].req) => logfile[k].req = logfile[j].req
    /\ \A r \in Reqs : (mu = r) <=> (post[r].pc = "write")

\* C2 witness: one request is in the middle of its write while another has
\* published its lines and waits for the mutex.
C2_Witness ==
    \E r, q \in Reqs :
        /\ r # q
        /\ mu = r /\ post[r].n = 1 /\ Len(post[r].data) = 2
        /\ post[q].pc = "loop" /\ Len(post[q].logs) = 2 /\ post[q].i > Len(post[q].logs)

\* C3 (as claimed): every line a tail connection has received is in the
\* active file.
C3_PublishedIsPersisted ==
    \A t \in Tails : \A k \in 1..Len(out[t]) :
        \E j \in 1..Len(logfile) :
            logfile[j].req = out[t][k].req /\ logfile[j].idx = out[t][k].idx

\* C6 (as claimed): once Send has returned for line k of request r, every
\* tail connection that was marked open when r arrived and is still connected
\* has received that line exactly once.
C6_DeliveredToAllOpen ==
    \A r \in Reqs : \A k \in 1..Len(post[r].logs) :
        (post[r].pc # "idle" /\ post[r].i > k) =>
            \A t \in post[r].tails : Listening(t) => Received(t, r, k) = 1

\* C7 (as claimed): a later connection's logChan has a strictly greater id;
\* no two share one.
C7_IdsIncrease ==
    \A t, u \in Tails :
        (t < u /\ get[t] \notin {"idle", "notfound"} /\ get[u] \notin {"idle", "notfound"})
            => lc[t].id < lc[u].id

\* C8 (as claimed): Delete for one connection leaves every other registered
\* connection registered.
C8_DeleteOnlyOwnEntry ==
    [][\A t \in Tails : Delete(t) =>
          \A u \in Tails \ {t} : Registered(u) => Registered(u)']_vars

\* C9 (as claimed): when request q arrived after request r was answered, both
\* were accepted, and tail connection t was open before r and is still
\* listening with nothing left to write, then t has read all lines of r and
\* then all lines of q, and the file holds them in that order.
C9_SequentialRequests ==
    \A r, q \in Reqs :
        (r \in post[q].prior /\ post[r].resp = 200 /\ post[q].resp = 200) =>
            /\ Origins(logfile, {r, q}) = AllOf(r) \o AllOf(q)
            /\ \A t \in post[r].tails :
                 (Listening(t) /\ stream[t].pc = "recv") =>
                     Origins(out[t], {r, q}) = AllOf(r) \o AllOf(q)

\* C10 (as claimed): the bytes of the file are the lines written to it, each
\* followed by exactly one line terminator unless it already ends in one.
C10_RecordsTerminated ==
    FileBytes =
        Flatten([k \in 1..Len(logfile) |->
                   SendText(post[logfile[k].req].logs[logfile[k].idx])])

\* What request r has changed outside its own handler: chunks of it in the
\* file, in a stream or read by a tail client, and the mutex.
Touched(r) ==
    \/ \E k \in 1..Len(logfile) : logfile[k].req = r
    \/ \E t \in Tails :
         \/ \E k \in 1..Len(out[t]) : out[t][k].req = r
         \/ stream[t].pc = "write" /\ stream[t].l.req = r
    \/ mu = r

\* C11: a POST or GET /log whose X-API-Key differs from the configured key
\* is answered 404 and changes nothing: the POST handler never runs (nothing
\* published, nothing written), the GET registers no subscriber and starts
\* no stream.
C11_WrongKeyNotFound ==
    /\ \A r \in Reqs :
         (post[r].pc # "idle" /\ post[r].key # apiKey) =>
             /\ post[r] = [IdlePost EXCEPT !.pc = "done", !.key = post[r].key,
                                           !.resp = 404]
             /\ ~Touched(r)
    /\ \A t \in Tails :
         get[t] = "notfound" =>
             /\ ~Registered(t)
             /\ lc[t] = [id |-> 0, open |-> FALSE]
             /\ stream[t] = [pc |-> "none", l |-> <<>>]
             /\ out[t] = <<>>

\* C11 witness: a POST and a GET with a wrong key have been answered while
\* an accepted request has published to an open tail connection and written.
C11_Witness ==
    \E r, q \in Reqs, t, u \in Tails :
        /\ post[r].pc = "done" /\ post[r].key = "guess" /\ post[r].resp = 404
        /\ get[t] = "notfound"
        /\ post[q].resp = 200 /\ Len(logfile) = 2
        /\ Listening(u) /\ Len(out[u]) = 2

\* A request whose body did not decode.
DecodeFailed(r) == post[r].pc = "done" /\ post[r].err = "decode body"

\* C12 (as claimed): a body that does not decode is answered with a client
\* error (4xx), not with the 5xx of a failed write.
C12_DecodeErrorIs4xx ==
    \A r \in Reqs : DecodeFailed(r) => post[r].resp \in 400..499

\* C13: a request whose body fails to decode writes nothing and publishes
\* nothing, also when lines had decoded before the error.
C13_DecodeErrorTouchesNothing ==
    \A r \in Reqs :
        post[r].err = "decode body" =>
            /\ ~Touched(r)
            /\ post[r].pc = "done" /\ post[r].data = <<>> /\ post[r].i = 0

\* C13 witness: a body of which two lines had decoded before the error, met
\* while a tail connection is open and another request has written.
C13_Witness ==
    \E r, q \in Reqs, t \in Tails :
        /\ DecodeFailed(r) /\ Len(post[r].logs) = 2
        /\ Listening(t) /\ Len(out[t]) = 2
        /\ post[q].resp = 200 /\ r \in post[q].prior

\* C14: a failed write is answered 500 and never 200; 200 is sent only after
\* the whole batch has been written.
C14_WriteErrorIs5xx ==
    \A r \in Reqs :
        /\ post[r].err = "write" => (post[r].pc = "done" /\ post[r].resp \in 500..599)
        /\ post[r].resp = 200 =>
              /\ post[r].pc = "done" /\ post[r].err = ""
              /\ post[r].n = Len(post[r].data)
              /\ Origins(logfile, {r}) = AllOf(r)

\* C14 witness: a write that failed after its first line was written, next
\* to a request whose two lines were written and which got 200.
C14_Witness ==
    \E r, q \in Reqs :
        /\ post[r].err = "write" /\ post[r].n = 1 /\ post[r].resp = 500
        /\ post[q].resp = 200 /\ Len(post[q].logs) = 2

\* ---------------------------------------------------------------- fairness
\* The goroutines of the service keep running: a handler that can take a
\* step takes it.  Nothing is assumed of the clients: a request need not
\* arrive, a write to the disk may fail, and a tail client need neither read
\* nor hang up (w.Write in streamLogs returns only when the client takes the
\* bytes or the connection fails).
PostRun(r) == Send(r) \/ RangeNext(r) \/ ChanSend(r) \/ Lock(r) \/ WritePiece(r) \/ WriteOK(r)

GetRun(t) == MarkOpen(t) \/ Delete(t)

FairSpec ==
    /\ Spec
    /\ \A r \in Reqs : WF_vars(PostRun(r))
    /\ \A t \in Tails : WF_vars(GetRun(t))

\* C4 (as claimed): Publish never blocks for good, whatever the subscribers
\* do: a request that has been decoded gets its response.
C4_PublishReturns ==
    \A r \in Reqs : (post[r].pc \in {"loop", "range", "chansend", "write"}) ~> (post[r].pc = "done")

\* ------------------------------------- the subscriber table of http/http.go
\* In this revision the methods of logChans have pointer receivers: l.id and
\* l.mu are the service's own.  A sync.RWMutex admits a reader when no writer
\* holds it or waits for it, and a writer when nobody holds it.
CanRLock == lmu.writer = 0 /\ lmu.waiting = {}
CanWLock == lmu.writer = 0 /\ lmu.readers = {}

\* The read lock after one pass of Send's loop: released when Send returns.
RUnlockAtReturn(p, r) ==
    IF p.pc = "loop" THEN [lmu EXCEPT !.readers = @ \ {r}] ELSE [lmu EXCEPT !.readers = @ \cup {r}]

\* logChans.Send (http.go): l.mu.RLock(); defer l.mu.RUnlock(); range.
SendH(r) ==
    /\ post[r].pc = "loop"
    /\ post[r].i <= Len(post[r].logs)
    /\ CanRLock
    /\ post' = [post EXCEPT ![r] = EndPass([@ EXCEPT !.pend = DOMAIN chans], r)]
    /\ lmu' = RUnlockAtReturn(post'[r], r)
    /\ UNCHANGED <<chans, id, lc, mu, logfile, get, stream, out, aux>>

RangeNextH(r) ==
    /\ post[r].pc = "range"
    /\ \E k \in post[r].pend :
         IF k \in DOMAIN chans /\ lc[chans[k]].open
         THEN post' = [post EXCEPT ![r].pend = @ \ {k}, ![r].to = chans[k],
                                   ![r].pc = "chansend"]
         ELSE post' = [post EXCEPT ![r] = EndPass([@ EXCEPT !.pend = @ \ {k}], r)]
    /\ lmu' = RUnlockAtReturn(post'[r], r)
    /\ UNCHANGED <<chans, id, lc, mu, logfile, get, stream, out, aux>>

\* lc.ch <- s, with the read lock held; s is sent as it is.
ChanSendH(r) ==
    /\ post[r].pc = "chansend"
    /\ stream[post[r].to].pc = "recv"
    /\ stream' = [stream EXCEPT ![post[r].to] =
                    [pc |-> "write", l |-> Chunk(r, post[r].i, post[r].logs[post[r].i])]]
    /\ post' = [post EXCEPT ![r] = EndPass(@, r)]
    /\ lmu' = RUnlockAtReturn(post'[r], r)
    /\ UNCHANGED <<chans, id, lc, mu, logfile, get, out, aux>>

\* l.mu.Lock() is called: from now on no new reader is admitted.
WLockWait(t, from, to) ==
    /\ get[t] = from
    /\ Arrives(get, t)
    /\ get' = [get EXCEPT ![t] = to]
    /\ lmu' = [lmu EXCEPT !.waiting = @ \cup {t}]
    /\ UNCHANGED <<chans, id, lc, mu, logfile, post, stream, out, aux>>

NewChanWait(t) == WLockWait(t, "idle", "newlock")

\* logChans.NewChan (http.go) with the lock: l.id++; l.chans[l.id] = lc;
\* Unlock.  getLog then starts streamLogs.
NewChanH(t) ==
    /\ get[t] = "newlock"
    /\ CanWLock
    /\ id' = id + 1
    /\ lc' = [lc EXCEPT ![t] = [id |-> id + 1, open |-> FALSE]]
    /\ chans' = MapSet(chans, id + 1, t)
    /\ lmu' = [lmu EXCEPT !.waiting = @ \ {t}]
    /\ get' = [get EXCEPT ![t] = "new"]
    /\ stream' = [stream EXCEPT ![t].pc = "recv"]
    /\ UNCHANGED <<mu, logfile, post, out, aux>>

DeleteWait(t) == WLockWait(t, "defer", "dellock")

\* logChans.Delete (http.go) with the lock: delete(l.chans, c.id); Unlock.
DeleteH(t) ==
    /\ get[t] = "dellock"
    /\ CanWLock
    /\ chans' = MapDelete(chans, lc[t].id)
    /\ lmu' = [lmu EXCEPT !.waiting = @ \ {t}]
    /\ get' = [get EXCEPT ![t] = "done"]
    /\ UNCHANGED <<id, lc, mu, logfile, post, stream, out, aux>>

\* The requests of this specification carry the configured key and a body
\* that decodes, and their writes to the disk succeed.
PostStepH(r) ==
    \/ \E b \in Batches : Decode(r, b)
    \/ SendH(r)
    \/ RangeNextH(r)
    \/ ChanSendH(r)
    \/ Lock(r)
    \/ WritePiece(r)
    \/ WriteOK(r)

GetStepH(t) ==
    \/ NewChanWait(t)
    \/ NewChanH(t)
    \/ MarkOpen(t)
    \/ StreamWrite(t)
    \/ StreamWriteErr(t)
    \/ DeleteWait(t)
    \/ DeleteH(t)

NextH ==
    \/ \E r \in Reqs : PostStepH(r)
    \/ \E t \in Tails : GetStepH(t)

SpecHttp == Init /\ [][NextH]_vars

\* C5 (as claimed): once the write to a tail connection has failed and its
\* streamLogs has returned, no Send waits on that connection's channel; in
\* particular no Send holding the read lock waits on it while the
\* connection's Delete waits for the write lock.
C5_NoSendOnDeadSubscriber ==
    \A r \in Reqs : post[r].pc = "chansend" => stream[post[r].to].pc # "exit"

\* ------------------------------------------- the file store and its rotation
MaxClock == 19   \* the instants considered: up to the fourth day

\* A variant of Old that also holds at an age of exactly 24 hours.
OldOrEqual(l, now) == l.created <= now - Day

\* Logfile.Old: l.created.Before(time.Now().Add(-24 * time.Hour))
Old(l, now) == l.created < now - Day

\* Time passes.
Tick ==
    /\ clock < MaxClock
    /\ clock' = clock + 1
    /\ UNCHANGED <<chans, id, lmu, lc, mu, logfile, post, get, stream, out,
                   zone, disk, handles, slog, rot, down, dir, ret, ext>>

\* srv.logfile.Write(...): the Logfile is read when the call starts, and all
\* bytes of the call go to its os.File.
WriteHandle(r) == IF post[r].n = 0 THEN slog.fi ELSE post[r].fi

\* os.File.Write fails at once on a closed file; a call that has started
\* holds the file until it returns, also when Close is called meanwhile.
CanWrite(r) == post[r].n > 0 \/ handles[WriteHandle(r)].open

\* One piece of the data is appended to the file of the handle.
WritePieceS(r) ==
    /\ post[r].pc = "write"
    /\ post[r].n + 1 < Len(post[r].data)
    /\ CanWrite(r)
    /\ disk' = [disk EXCEPT ![handles[WriteHandle(r)].name] =
                   Append(@, post[r].data[post[r].n + 1])]
    /\ post' = [post EXCEPT ![r].n = @ + 1, ![r].fi = WriteHandle(r)]
    /\ UNCHANGED <<chans, id, lmu, lc, mu, logfile, get, stream, out,
                   clock, zone, handles, slog, rot, down, dir, ret, ext>>

\* The last piece is written and Write returns nil: deferred Unlock, postLog
\* answers 200 "OK".
WriteOKS(r) ==
    /\ post[r].pc = "write"
    /\ post[r].n + 1 >= Len(post[r].data)
    /\ CanWrite(r)
    /\ disk' = IF post[r].n < Len(post[r].data)
               THEN [disk EXCEPT ![handles[WriteHandle(r)].name] =
                       Append(@, post[r].data[post[r].n + 1])]
               ELSE disk
    /\ mu' = 0
    /\ post' = [post EXCEPT ![r].pc = "done", ![r].n = Len(post[r].data),
                              ![r].fi = WriteHandle(r), ![r].resp = postLog("")]
    /\ UNCHANGED <<chans, id, lmu, lc, logfile, get, stream, out,
                   clock, zone, handles, slog, rot, down, dir, ret, ext>>

\* Write returns an error: the file is closed, or the disk fails (possibly
\* after a short write).  Deferred Unlock, postLog answers 500.
WriteErrS(r) ==
    /\ post[r].pc = "write"
    /\ post[r].n < Len(post[r].data) \/ ~CanWrite(r)
    /\ mu' = 0
    /\ post' = [post EXCEPT ![r].pc = "done", ![r].fi = WriteHandle(r),
                              ![r].err = "write", ![r].resp = postLog("write")]
    /\ UNCHANGED <<chans, id, lmu, lc, logfile, get, stream, out, aux>>

\* The goroutine of EnforceRetentionPolicy as a holder of srv.mu.
Rotator == MaxReqs + 1

\* A variant of RotateCanLock that does not wait for the mutex.
RotateNoLock == TRUE

\* rotateLogfile: srv.mu.Lock()
RotateCanLock == CanLock(Rotator)

\* for range time.Tick(24 * time.Hour): the ticker is started when the first
\* rotateLogfile and deleteOldFiles have returned, and ticks every 24 hours.
NextDue == IF rot.due = 0 THEN clock + Day ELSE rot.due + Day

\* rotateLogfile is called, on boot or at a tick of the ticker: if
\* !srv.logfile.Old() { return nil }, else on to srv.mu.Lock().
RotateCheck ==
    /\ rot.pc = "boot" \/ (rot.pc = "wait" /\ clock >= rot.due)
    /\ rot' = IF Old(slog, clock) THEN [rot EXCEPT !.pc = "lock"]
              ELSE [pc |-> "wait", due |-> NextDue]
    /\ UNCHANGED <<chans, id, lmu, lc, mu, logfile, post, get, stream, out,
                   clock, zone, disk, handles, slog, down, dir, ret, ext>>

\* rotateLogfile with the mutex: logfile, err := sls.NewLogfile(srv.dir);
\* srv.logfile = logfile; deferred Unlock.  The Logfile replaced is dropped
\* as it is.
RotateSwap ==
    /\ rot.pc = "lock"
    /\ RotateCanLock
    /\ disk' = Created(disk, clock, zone)
    /\ handles' = Opened(handles, clock, zone)
    /\ slog' = NewLogfile(handles, clock, zone)
    /\ rot' = [pc |-> "wait", due |-> NextDue]
    /\ UNCHANGED <<chans, id, lmu, lc, mu, logfile, post, get, stream, out,
                   clock, zone, down, dir, ret, ext>>

\* rotateLogfile with the mutex: NewLogfile fails to open the file; return
\* err, srv.logfile stays.
RotateErr ==
    /\ rot.pc = "lock"
    /\ RotateCanLock
    /\ rot' = [pc |-> "wait", due |-> NextDue]
    /\ UNCHANGED <<chans, id, lmu, lc, mu, logfile, post, get, stream, out,
                   clock, zone, disk, handles, slog, down, dir, ret, ext>>

\* Service.Shutdown: srv.logfile.Close().  main calls it once.
Shutdown ==
    /\ ~down
    /\ down' = TRUE
    /\ handles' = [handles EXCEPT ![slog.fi].open = FALSE]
    /\ UNCHANGED <<chans, id, lmu, lc, mu, logfile, post, get, stream, out,
                   clock, zone, disk, slog, rot, dir, ret, ext>>

\* The service boots at an instant of the second day, in one of the zones.
\* Its requests carry the configured key and a body that decodes; no tail
\* connection is made.
StoreInit ==
    /\ InitService /\ ExtIdle
    /\ \E now \in Day..(2 * Day - 1), z \in Zones : Boot(now, z)

PostStepS(r) ==
    \/ \E b \in Batches : Decode(r, b)
    \/ Send(r)
    \/ Lock(r)
    \/ WritePieceS(r)
    \/ WriteOKS(r)
    \/ WriteErrS(r)

StoreNext ==
    \/ \E r \in Reqs : PostStepS(r)
    \/ Tick
    \/ RotateCheck
    \/ RotateSwap
    \/ RotateErr
    \/ Shutdown

StoreSpec == StoreInit /\ [][StoreNext]_vars

\* The files that hold a chunk of request r.
FilesOf(r) == { f \in DOMAIN disk : \E k \in 1..Len(disk[f]) : disk[f][k].req = r }

\* The chunks of one request form one run of the file.
Contiguous(file) ==
    \A j, k, l \in 1..Len(file) :
        (j < k /\ k < l /\ file[j].req = file[l].req) => file[k].req = file[j].req

\* The handles that are open.
OpenHandles == { h \in DOMAIN handles : handles[h].open }

\* C15: rotation is serialized with the writers by srv.mu.  srv.logfile is
\* not replaced while a Write is under way, and the batch of every request
\* answered 200 is whole, in batch order and in one run, in exactly one file.
C15_RotationSerialized ==
    /\ \A r \in Reqs :
         /\ (post[r].pc = "write" /\ post[r].n > 0) => post[r].fi = slog.fi
         /\ post[r].resp = 200 =>
               /\ Cardinality(FilesOf(r)) <= 1
               /\ \E f \in DOMAIN disk : Origins(disk[f], {r}) = AllOf(r)
    /\ \A f \in DOMAIN disk : Contiguous(disk[f])

\* C15 witness: rotateLogfile has found the file old and waits for the mutex
\* while a request is in the middle of its write; later that batch is whole
\* in the old file and the next request's batch whole in the new one.
C15_Witness ==
    \E r, q \in Reqs :
        /\ r # q
        /\ post[r].resp = 200 /\ Len(post[r].logs) = 2
        /\ post[q].pc = "write" /\ post[q].n = 1 /\ Len(post[q].logs) = 2
        /\ handles[post[r].fi].name # handles[post[q].fi].name
        /\ rot.pc = "lock"

\* C16 (as claimed): rotateLogfile changes nothing while the file is not
\* old; when it swaps, the new file is named for the current day and is not
\* old, so that a second call right away changes nothing.
C16_RotateIdempotent ==
    [][/\ (RotateCheck /\ ~Old(slog, clock)) =>
            (rot'.pc = "wait" /\ UNCHANGED <<disk, handles, slog>>)
       /\ RotateSwap =>
            /\ handles'[slog'.fi].name = LocalDate(clock, zone)
            /\ ~Old(slog', clock')]_vars

\* C17 (as claimed): at most one file handle is open at any time.
C17_OneOpenHandle == Cardinality(OpenHandles) <= 1

\* C18 (as claimed): after Shutdown no Write begins with success: none
\* appends its first piece and none returns nil.
C18_ClosedRefusesWrites ==
    [][down => \A r \in Reqs :
          (post[r].pc = "write" /\ post[r].n = 0) =>
              (post'[r].n = 0 /\ post'[r].resp # 200)]_vars

\* -------------------------------------------------------------- file names
\* A file name is the sequence of its characters, without the ".log" that
\* getFilesInDir selects by and deleteOldFiles trims.
DigitChars == <<"0", "1", "2", "3", "4", "5", "6", "7", "8", "9">>
IsDigit(c) == \E k \in 1..10 : DigitChars[k] = c
DigitVal(c) == (CHOOSE k \in 1..10 : DigitChars[k] = c) - 1

\* regexp `^\d+`, FindString: the longest prefix of digits.
RECURSIVE FindString(_)
FindString(s) ==
    IF s = <<>> \/ ~IsDigit(Head(s)) THEN <<>>
    ELSE <<Head(s)>> \o FindString(Tail(s))

\* strconv.ParseUint(s, 10, 64) of a string of digits: an error when it is
\* empty, else its value.
RECURSIVE ParseUint(_)
ParseUint(s) ==
    IF s = <<>> THEN 0
    ELSE ParseUint(SubSeq(s, 1, Len(s) - 1)) * 10 + DigitVal(s[Len(s)])
ParseUintErr(s) == s = <<>>

\* The calendar of package time: days of a month, and the days from
\* 1970-01-01 to a date.
IsLeap(y) == y % 4 = 0 /\ (y % 100 # 0 \/ y % 400 = 0)
DaysIn(y, m) ==
    IF m = 2 THEN (IF IsLeap(y) THEN 29 ELSE 28)
    ELSE IF m \in {4, 6, 9, 11} THEN 30 ELSE 31
DaysFromCivil(y, m, d) ==
    LET yy == IF m <= 2 THEN y - 1 ELSE y
        era == yy \div 400
        yoe == yy - era * 400
        mp == (m + 9) % 12
        doy == (153 * mp + 2) \div 5 + d - 1
        doe == yoe * 365 + yoe \div 4 - yoe \div 100 + doy
    IN  era * 146097 + doe - 719468

\* time.Parse("20060102", name): four digits of year, two of month, two of
\* day and nothing more; month and day in range.  The time is midnight UTC.
Year(s) == ParseUint(SubSeq(s, 1, 4))
Month(s) == ParseUint(SubSeq(s, 5, 6))
DayOfMonth(s) == ParseUint(SubSeq(s, 7, 8))
ParseErr(s) ==
    IF Len(s) # 8 THEN TRUE
    ELSE IF \E k \in 1..Len(s) : ~IsDigit(s[k]) THEN TRUE
    ELSE IF Month(s) \notin 1..12 THEN TRUE
    ELSE DayOfMonth(s) \notin 1..DaysIn(Year(s), Month(s))
Parse(s) == DaysFromCivil(Year(s), Month(s), DayOfMonth(s)) * Day

\* The character of the last decimal digit of n.
DigitOf(n) == DigitChars[(n % 10) + 1]

\* now.Format("20060102") of a date.
Format(y, m, d) ==
    << DigitOf(y \div 1000), DigitOf(y \div 100), DigitOf(y \div 10), DigitOf(y),
       DigitOf(m \div 10), DigitOf(m), DigitOf(d \div 10), DigitOf(d) >>

\* --------------------------------------------------------------- retention
MaxFiles == 3    \* .log files in the directory
MaxRetain == 2   \* RETAIN_FOR_DAYS

\* The names the directory may hold: the logs of four days, and names that
\* are no date: "20240132", "20241301", "2024010", "20240102b" and "x".
Names ==
    { Format(2024, 1, d) : d \in 1..4 }
    \cup { Format(2024, 1, 32), Format(2024, 13, 1), SubSeq(Format(2024, 1, 1), 1, 7),
           Append(Format(2024, 1, 2), "b"), <<"x">> }

\* The instants of a run: any tick of 2024-01-03 and 2024-01-04.
Nows == { DaysFromCivil(2024, 1, 3) * Day + h : h \in 0..(2 * Day - 1) }

\* conf.RetainFor: time.Duration(i) * 24 * time.Hour
RetainFor(i) == i * Day

\* sortFilesByTimestamp: fiNum1 < fiNum2
Less(a, b) == ParseUint(FindString(a)) < ParseUint(FindString(b))

\* sort.Slice over two files or more calls less on every one of them: errOut
\* is set when a name has no digits in front.  Over fewer files less is not
\* called.
SortErrOut(S) == Cardinality(S) >= 2 /\ \E a \in S : ParseUintErr(FindString(a))

\* The results sort.Slice may give: every order of the files in which none
\* comes before a lesser one (the sort is not stable).
Sorted(S) ==
    { f \in [1..Cardinality(S) -> S] :
        /\ \A j, k \in DOMAIN f : j # k => f[j] # f[k]
        /\ \A j, k \in DOMAIN f : j < k => ~Less(f[k], f[j]) }

\* A variant of After that holds for equal times too.
AfterOrEqual(t, u) == t >= u

\* time.Time.After
After(t, u) == t > u

\* deleteOldFiles: getFilesInDir, sortFilesByTimestamp without error,
\* cutoff := time.Now().Add(-1 * dur).
SortFiles ==
    /\ ret.pc = "start"
    /\ ~SortErrOut(dir)
    /\ \E f \in Sorted(dir) :
         ret' = [ret EXCEPT !.pc = "loop", !.files = f, !.k = 1,
                            !.cutoff = clock - ret.dur]
    /\ UNCHANGED <<chans, id, lmu, lc, mu, logfile, post, get, stream, out,
                   clock, zone, disk, handles, slog, rot, down, dir, ext>>

\* deleteOldFiles: sortFilesByTimestamp returns errOut.
SortErr ==
    /\ ret.pc = "start"
    /\ SortErrOut(dir)
    /\ ret' = [ret EXCEPT !.pc = "done", !.err = "sort files by timestamp"]
    /\ UNCHANGED <<chans, id, lmu, lc, mu, logfile, post, get, stream, out,
                   clock, zone, disk, handles, slog, rot, down, dir, ext>>

\* The loop is at a file.
AtFile == ret.pc = "loop" /\ ret.k <= Len(ret.files)

\* The loop body: time.Parse fails, return the error.
InvalidTime ==
    /\ AtFile
    /\ ParseErr(ret.files[ret.k])
    /\ ret' = [ret EXCEPT !.pc = "done", !.err = "invalid time"]
    /\ UNCHANGED <<chans, id, lmu, lc, mu, logfile, post, get, stream, out,
                   clock, zone, disk, handles, slog, rot, down, dir, ext>>

\* The loop body: if ti.After(cutoff) { return nil }
StopAtKept ==
    /\ AtFile
    /\ ~ParseErr(ret.files[ret.k])
    /\ After(Parse(ret.files[ret.k]), ret.cutoff)
    /\ ret' = [ret EXCEPT !.pc = "done"]
    /\ UNCHANGED <<chans, id, lmu, lc, mu, logfile, post, get, stream, out,
                   clock, zone, disk, handles, slog, rot, down, dir, ext>>

\* The loop body: os.Remove, and on to the next file.
RemoveOld ==
    /\ AtFile
    /\ ~ParseErr(ret.files[ret.k])
    /\ ~After(Parse(ret.files[ret.k]), ret.cutoff)
    /\ dir' = dir \ {ret.files[ret.k]}
    /\ ret' = [ret EXCEPT !.k = @ + 1, !.deleted = Append(@, ret.files[ret.k])]
    /\ UNCHANGED <<chans, id, lmu, lc, mu, logfile, post, get, stream, out,
                   clock, zone, disk, handles, slog, rot, down, ext>>

\* The loop body: os.Remove fails, return the error.
RemoveErr ==
    /\ AtFile
    /\ ~ParseErr(ret.files[ret.k])
    /\ ~After(Parse(ret.files[ret.k]), ret.cutoff)
    /\ ret' = [ret EXCEPT !.pc = "done", !.err = "remove"]
    /\ UNCHANGED <<chans, id, lmu, lc, mu, logfile, post, get, stream, out,
                   clock, zone, disk, handles, slog, rot, down, dir, ext>>

\* The loop is over: return nil.
RangeEnd ==
    /\ ret.pc = "loop"
    /\ ret.k > Len(ret.files)
    /\ ret' = [ret EXCEPT !.pc = "done"]
    /\ UNCHANGED <<chans, id, lmu, lc, mu, logfile, post, get, stream, out,
                   clock, zone, disk, handles, slog, rot, down, dir, ext>>

\* deleteOldFiles(dur) is called at some instant over some directory.
RetInit ==
    /\ InitService /\ ExtIdle
    /\ zone = 0 /\ disk = <<>> /\ handles = <<>> /\ slog = [fi |-> 0, created |-> 0]
    /\ rot = [pc |-> "wait", due |-> 0] /\ down = FALSE
    /\ clock \in Nows
    /\ dir \in { S \in SUBSET Names : Cardinality(S) <= MaxFiles }
    /\ \E i \in 1..MaxRetain :
         ret = [IdleRun EXCEPT !.pc = "start", !.dur = RetainFor(i), !.dir0 = dir]

RetNext ==
    \/ SortFiles
    \/ SortErr
    \/ InvalidTime
    \/ StopAtKept
    \/ RemoveOld
    \/ RemoveErr
    \/ RangeEnd

RetSpec == RetInit /\ [][RetNext]_vars

\* A run that has returned nil over a directory of well-formed names.
AllValid == \A f \in ret.dir0 : ~ParseErr(f)
Finished == ret.pc = "done" /\ ret.err = ""

\* The files removed, as a set.
Deleted == { ret.deleted[k] : k \in DOMAIN ret.deleted }

\* The files fall oldest first, and the loop looks at no file after the
\* first it keeps.
OldestFirst ==
    /\ \A j, k \in DOMAIN ret.deleted :
         j < k => Parse(ret.deleted[j]) < Parse(ret.deleted[k])
    /\ ret.deleted = SubSeq(ret.files, 1, ret.k - 1)

\* Horizon 2 days, files 20240101, 20240102, 20240103, run on 20240103.
Scenario ==
    /\ ret.dir0 = { Format(2024, 1, d) : d \in 1..3 }
    /\ ret.dur = RetainFor(2)
    /\ clock \div Day = DaysFromCivil(2024, 1, 3)

C20_BadNameIsError ==
    (ret.pc = "done" /\ \E f \in ret.dir0 : ParseErr(f)) => ret.err # ""

\* ------------------------------------------- EnforceRetentionPolicy, whole
\* The goroutine of EnforceRetentionPolicy with both calls of each round:
\* rotateLogfile, then deleteOldFiles, then the wait for the ticker.  rot
\* carries what the goroutine printed with srv.log.Printf after its last call
\* of each: the error of rotateLogfile (rotErr) and that of deleteOldFiles
\* (delErr, "" for none), with the file os.Remove named in it (delFile).
MaxDays == 2     \* the days the policy is followed, from 2024-01-03 on

PolicyEnd == (DaysFromCivil(2024, 1, 3) + MaxDays) * Day - 1

\* NewLogfile: now.Format("20060102") of the truncated date.
FileName(now, z) ==
    CHOOSE n \in { Format(2024, 1, d) : d \in 1..31 } : Parse(n) = Truncate(now, z)

\* A variant of Logged in which an error ends the goroutine (log.Fatalf).
LoggedFatal(err) == IF err = "" THEN "wait" ELSE "dead"

\* if err := ...; err != nil { srv.log.Printf(...) }: the error is printed
\* and the goroutine goes on to the next statement.
Logged(err) == "wait"

\* The goroutine is at a call of rotateLogfile: on boot, or the ticker has
\* ticked.
AtRotate == rot.pc = "boot" \/ (rot.pc = "wait" /\ clock >= rot.due)

\* srv.deleteOldFiles(dur) is called.
CallDelete == [IdleRun EXCEPT !.pc = "start", !.dur = ret.dur, !.dir0 = dir]

\* rotateLogfile: if !srv.logfile.Old() { return nil }
PolicyRotateNil ==
    /\ AtRotate
    /\ ~Old(slog, clock)
    /\ rot' = [rot EXCEPT !.pc = "delete", !.rotErr = ""]
    /\ ret' = CallDelete
    /\ UNCHANGED <<chans, id, lmu, lc, mu, logfile, post, get, stream, out,
                   clock, zone, disk, handles, slog, down, dir, ext>>

\* rotateLogfile over an old Logfile: the mutex, NewLogfile, the swap.
PolicyRotateSwap ==
    /\ AtRotate
    /\ Old(slog, clock)
    /\ RotateCanLock
    /\ disk' = Created(disk, clock, zone)
    /\ handles' = Opened(handles, clock, zone)
    /\ slog' = NewLogfile(handles, clock, zone)
    /\ dir' = dir \cup {FileName(clock, zone)}
    /\ rot' = [rot EXCEPT !.pc = "delete", !.rotErr = ""]
    /\ ret' = [CallDelete EXCEPT !.dir0 = dir']
    /\ UNCHANGED <<chans, id, lmu, lc, mu, logfile, post, get, stream, out,
                   clock, zone, down, ext>>

\* rotateLogfile over an old Logfile: NewLogfile fails; "failed to rotate"
\* is printed.
PolicyRotateErr ==
    /\ AtRotate
    /\ Old(slog, clock)
    /\ RotateCanLock
    /\ rot' = [rot EXCEPT !.pc = IF Logged("open") = "wait" THEN "delete" ELSE "dead",
                          !.rotErr = "open"]
    /\ ret' = IF Logged("open") = "wait" THEN CallDelete ELSE ret
    /\ UNCHANGED <<chans, id, lmu, lc, mu, logfile, post, get, stream, out,
                   clock, zone, disk, handles, slog, down, dir, ext>>

\* deleteOldFiles has returned: its error, if any, is printed ("failed to
\* delete old files"), and the goroutine waits for the next tick.
PolicyDeleteReturns ==
    /\ rot.pc = "delete"
    /\ ret.pc = "done"
    /\ rot' = [rot EXCEPT !.pc = Logged(ret.err), !.due = NextDue,
                          !.delErr = ret.err,
                          !.delFile = IF ret.err = "remove" THEN ret.files[ret.k]
                                      ELSE <<>>]
    /\ UNCHANGED <<chans, id, lmu, lc, mu, logfile, post, get, stream, out,
                   clock, zone, disk, handles, slog, down, dir, ret, ext>>

\* Time passes.
PolicyTick ==
    /\ clock < PolicyEnd
    /\ clock' = clock + 1
    /\ UNCHANGED <<chans, id, lmu, lc, mu, logfile, post, get, stream, out,
                   zone, disk, handles, slog, rot, down, dir, ret, ext>>

\* The service boots on 2024-01-03 in UTC over a directory that holds some files
\* and the one NewService has opened; main calls EnforceRetentionPolicy.
PolicyInit ==
    /\ InitService /\ ExtIdle
    /\ zone = 0
    /\ \E h \in 0..(Day - 1) :
         /\ clock = DaysFromCivil(2024, 1, 3) * Day + h
         /\ disk = Created(<<>>, clock, zone)
         /\ handles = Opened(<<>>, clock, zone)
         /\ slog = NewLogfile(<<>>, clock, zone)
         /\ \E S \in SUBSET Names :
              /\ Cardinality(S) <= MaxFiles - 1
              /\ dir = S \cup {FileName(clock, zone)}
    /\ rot = [pc |-> "boot", due |-> 0, rotErr |-> "", delErr |-> "", delFile |-> <<>>]
    /\ down = FALSE
    /\ \E i \in 1..MaxRetain : ret = [IdleRun EXCEPT !.dur = RetainFor(i)]

PolicyStep ==
    \/ PolicyRotateNil
    \/ PolicyRotateSwap
    \/ PolicyRotateErr
    \/ SortFiles
    \/ SortErr
    \/ InvalidTime
    \/ StopAtKept
    \/ RemoveOld
    \/ RemoveErr
    \/ RangeEnd
    \/ PolicyDeleteReturns

PolicyNext == PolicyStep \/ PolicyTick

PolicySpec == PolicyInit /\ [][PolicyNext]_vars

\* The loop of deleteOldFiles is at os.Remove of f.
AtRemove(f) ==
    /\ AtFile /\ ret.files[ret.k] = f
    /\ ~ParseErr(f) /\ ~After(Parse(f), ret.cutoff)

\* The last deleteOldFiles stopped at a failing os.Remove, and the names of
\* the directory are dates.
RemoveFailed == rot.delErr = "remove" /\ \A g \in dir : ~ParseErr(g)

\* C21: when os.Remove fails the run ends there with the error and deletes
\* no further file; whatever rotateLogfile or deleteOldFiles returned, the
\* error is printed and the goroutine goes on, never stopped, to the next
\* statement and to the wait for the ticker; at every tick it calls both
\* again, and the loop of the new run is at once back at os.Remove of the
\* file that was left.
C21_FailedDeletionIsRetried ==
    /\ [][ /\ RemoveErr => (ret'.pc = "done" /\ ret'.err = "remove")
           /\ ret.pc = "done" => dir \subseteq dir'
           /\ PolicyRotateErr => (rot'.pc = "delete" /\ ret'.pc = "start")
           /\ PolicyDeleteReturns => (rot'.pc = "wait" /\ rot'.delErr = ret.err)
           /\ (SortFiles /\ RemoveFailed) => AtRemove(rot.delFile)' ]_vars
    /\ [](rot.pc \in {"boot", "wait", "delete"})
    /\ []((rot.pc = "wait" /\ clock >= rot.due) =>
            ENABLED (PolicyRotateNil \/ PolicyRotateSwap \/ PolicyRotateErr))
    /\ []((rot.pc = "delete" /\ ret.pc = "done") => ENABLED PolicyDeleteReturns)

\* C21 witness: the run before this one stopped at a failing os.Remove, and
\* the run of the next tick has removed that file.
C21_Witness ==
    /\ rot.pc = "delete" /\ rot.delErr = "remove" /\ rot.due > 0
    /\ ret.pc = "loop" /\ Len(ret.deleted) > 0 /\ ret.deleted[1] = rot.delFile

\* ---------------------------------------------------------------- client
\* The Client of client.go.  Loggers call Log (Write is Log and a return of
\* len(byt), nil); with WithFlushInterval there are the goroutine of the
\* ticker and the caller of the flush function it returns.  cl.mu is the
\* goroutine that holds c.mu (0 for none); cl.appended records the lines in
\* the order Log stored them in c.buf.
MaxLoggers == 2  \* goroutines that call Log
MaxLines == 2    \* Log calls of each

Loggers == 1..MaxLoggers
Ticker == MaxLoggers + 1
Flusher == MaxLoggers + 2
Procs == 1..(MaxLoggers + 2)

\* The strings passed to Log: LogLines[g][n] by goroutine g in its call n.
LogLines ==
    << <<"a1", "a2", "a3">>, <<"b1", "b2", "b3">>, <<"c1", "c2", "c3">> >>

\* The variables of the service and of its file store.
svc == <<chans, id, lmu, lc, mu, logfile, post, get, stream, out>>
store == <<clock, zone, disk, handles, slog, rot, down, dir, ret>>

\* json.Marshal of a non-empty []string, as its tokens, and the array a
\* server decodes from them.
Marshal(buf) ==
    [i \in 1..(2 * Len(buf) + 1) |->
        IF i = 1 THEN "["
        ELSE IF i = 2 * Len(buf) + 1 THEN "]"
        ELSE IF i % 2 = 0 THEN buf[i \div 2] ELSE ","]
Unmarshal(byt) == [k \in 1..((Len(byt) - 1) \div 2) |-> byt[2 * k]]

\* A goroutine outside of Log and flush: calls made, the line of its last
\* call, the request of its flush (its place in wire), the error it has
\* given to sendErr.
IdleProc == [pc |-> "idle", n |-> 0, s |-> "", k |-> 0, err |-> ""]

\* A variant of Emptied that leaves the buffer as it is.
Kept(buf) == buf

\* marshalBuffer: c.buf = []string{}
Emptied(buf) == <<>>

\* Log is called (by Write or directly) and comes to c.mu.Lock().
LogCall(g) ==
    /\ g \in Loggers
    /\ gs[g].pc = "idle"
    /\ gs[g].n < MaxLines
    /\ gs' = [gs EXCEPT ![g].pc = "Log", ![g].n = @ + 1,
                        ![g].s = LogLines[g][gs[g].n + 1]]
    /\ UNCHANGED <<svc, store, cl, wire, recs, main, mt, tg>>

\* Log with a flush interval: Lock, c.buf = append(c.buf, s), Unlock, return.
LogAppend(g) ==
    /\ gs[g].pc = "Log"
    /\ cl.mu = 0
    /\ cl.flushInterval > 0
    /\ cl' = [cl EXCEPT !.buf = Append(@, gs[g].s),
                        !.appended = Append(@, gs[g].s)]
    /\ gs' = [gs EXCEPT ![g].pc = "idle"]
    /\ UNCHANGED <<svc, store, wire, recs, main, mt, tg>>

\* Log without one: Lock, c.buf = []string{s}, Unlock, and on to c.flush().
LogSet(g) ==
    /\ gs[g].pc = "Log"
    /\ cl.mu = 0
    /\ cl.flushInterval = 0
    /\ cl' = [cl EXCEPT !.buf = <<gs[g].s>>, !.appended = Append(@, gs[g].s)]
    /\ gs' = [gs EXCEPT ![g].pc = "flush"]
    /\ UNCHANGED <<svc, store, wire, recs, main, mt, tg>>

\* The ticker ticks, or the flush function WithFlushInterval returned is
\* called: c.flush() comes to c.mu.Lock().
flushCall(g) ==
    /\ g \in {Ticker, Flusher}
    /\ cl.flushInterval > 0
    /\ gs[g].pc = "idle"
    /\ gs' = [gs EXCEPT ![g].pc = "flush"]
    /\ UNCHANGED <<svc, store, cl, wire, recs, main, mt, tg>>

\* flush returns: the deferred c.mu.Unlock().
Returned(p) == [p EXCEPT !.pc = "idle", !.k = 0, !.err = ""]

\* flush over an empty buffer: Lock, marshalBuffer gives nil, return.
flushEmpty(g) ==
    /\ gs[g].pc = "flush"
    /\ cl.mu = 0
    /\ cl.buf = <<>>
    /\ gs' = [gs EXCEPT ![g] = Returned(@)]
    /\ UNCHANGED <<svc, store, cl, wire, recs, main, mt, tg>>

\* sendErr(err) by goroutine g, which holds c.mu, c.buf being buf: return
\* when c.errCh is nil, and flush returns; else the send on the channel,
\* which has no buffer.
sendErr(g, err, buf) ==
    IF cl.errCh = "nil"
    THEN /\ cl' = [cl EXCEPT !.buf = buf, !.mu = 0]
         /\ gs' = [gs EXCEPT ![g] = Returned(@)]
    ELSE /\ cl' = [cl EXCEPT !.buf = buf, !.mu = g]
         /\ gs' = [gs EXCEPT ![g].pc = "sendErr", ![g].err = err]

\* flush: Lock, marshalBuffer, http.NewRequest, and c.client.Do(req) is
\* called with the batch; the mutex stays locked.
flushDo(g) ==
    /\ gs[g].pc = "flush"
    /\ cl.mu = 0
    /\ cl.buf # <<>>
    /\ cl.url = "ok"
    /\ cl' = [cl EXCEPT !.buf = Emptied(cl.buf), !.mu = g]
    /\ wire' = Append(wire, [byt |-> Marshal(cl.buf), st |-> "sent", tries |-> 1])
    /\ gs' = [gs EXCEPT ![g].pc = "Do", ![g].k = Len(wire) + 1]
    /\ UNCHANGED <<svc, store, recs, main, mt, tg>>

\* flush: Lock, marshalBuffer, http.NewRequest fails on c.url; sendErr.
flushNewRequestErr(g) ==
    /\ gs[g].pc = "flush"
    /\ cl.mu = 0
    /\ cl.buf # <<>>
    /\ cl.url # "ok"
    /\ wire' = Append(wire, [byt |-> Marshal(cl.buf), st |-> "new request",
                             tries |-> 0])
    /\ sendErr(g, "new request", Emptied(cl.buf))
    /\ UNCHANGED <<svc, store, recs, main, mt, tg>>

\* c.client.Do returns a response with status 200; flush returns.
DoOK(g) ==
    /\ gs[g].pc = "Do"
    /\ wire' = [wire EXCEPT ![gs[g].k].st = "200"]
    /\ cl' = [cl EXCEPT !.mu = 0]
    /\ gs' = [gs EXCEPT ![g] = Returned(@)]
    /\ UNCHANGED <<svc, store, recs, main, mt, tg>>

\* c.client.Do returns an error (no connection, the 10 s timeout); sendErr.
DoErr(g) ==
    /\ gs[g].pc = "Do"
    /\ wire' = [wire EXCEPT ![gs[g].k].st = "error"]
    /\ sendErr(g, "do", cl.buf)
    /\ UNCHANGED <<svc, store, recs, main, mt, tg>>

\* c.client.Do returns a response with another status; sendErr.
DoStatus(g) ==
    /\ gs[g].pc = "Do"
    /\ wire' = [wire EXCEPT ![gs[g].k].st = "status"]
    /\ sendErr(g, "expected 200", cl.buf)
    /\ UNCHANGED <<svc, store, recs, main, mt, tg>>

\* A goroutine of the program receives from Err(): the send of sendErr
\* completes and flush returns.
ErrRecv(g) ==
    /\ gs[g].pc = "sendErr"
    /\ recs' = Append(recs, gs[g].err)
    /\ cl' = [cl EXCEPT !.mu = 0]
    /\ gs' = [gs EXCEPT ![g] = Returned(@)]
    /\ UNCHANGED <<svc, store, wire, main, mt, tg>>

\* NewClient over a URL that parses or not, with WithFlushInterval or
\* without, Err() called once or never, before the first Log.
ClientInit ==
    /\ InitService /\ Boot(Day, 0) /\ MainIdle /\ TargetsIdle
    /\ \E i \in {0, 1}, ch \in {"nil", "made"}, u \in {"ok", "bad"} :
         cl = [buf |-> <<>>, mu |-> 0, errCh |-> ch, flushInterval |-> i,
               url |-> u, appended |-> <<>>]
    /\ gs = [g \in Procs |-> IdleProc]
    /\ wire = <<>>
    /\ recs = <<>>

ClientStep(g) ==
    \/ LogAppend(g)
    \/ LogSet(g)
    \/ flushEmpty(g)
    \/ flushDo(g)
    \/ flushNewRequestErr(g)
    \/ DoOK(g)
    \/ DoErr(g)
    \/ DoStatus(g)

ClientNext ==
    \E g \in Procs :
        \/ LogCall(g)
        \/ flushCall(g)
        \/ ClientStep(g)
        \/ ErrRecv(g)

ClientSpec == ClientInit /\ [][ClientNext]_vars

\* The batches handed to c.client.Do or dropped before it, as the server
\* would decode them, in order.
Taken == [k \in 1..Len(wire) |-> Unmarshal(wire[k].byt)]

\* C22: with a flush interval, over a URL that parses, the batches handed
\* to Do hold, one after the other, exactly the lines Log has stored, in the
\* order it stored them, up to those still in the buffer: no line twice,
\* none left out, and no batch is empty.
C22_BufferedBatchesInOrder ==
    (cl.flushInterval > 0 /\ cl.url = "ok") =>
        /\ Flatten(Taken) \o cl.buf = cl.appended
        /\ \A k \in DOMAIN wire : Taken[k] # <<>> /\ wire[k].tries = 1

\* C22 witness: both loggers have logged all their lines; the lines went
\* out in two batches or more, one of them with lines of both loggers, and
\* the ticker is in a flush over an empty buffer.
C22_Witness ==
    /\ cl.flushInterval > 0 /\ cl.url = "ok"
    /\ Len(cl.appended) = MaxLoggers * MaxLines
    /\ Len(wire) >= 2
    /\ \E k \in DOMAIN wire : "a1" \in { Taken[k][j] : j \in DOMAIN Taken[k] }
                          /\ "b1" \in { Taken[k][j] : j \in DOMAIN Taken[k] }
    /\ cl.buf = <<>> /\ gs[Ticker].pc = "flush"

\* The calls of Log by g that have returned.
ReturnedCalls(g) == IF gs[g].pc = "idle" THEN gs[g].n ELSE gs[g].n - 1

\* The requests that hold exactly the one line s.
AloneIn(s) == { k \in DOMAIN wire : Taken[k] = <<s>> }

\* C23 (as claimed): without a flush interval, over a URL that parses, when
\* Log(s) has returned s has been handed to Do exactly once, in a batch of
\* its own, and no batch holds anything else.
C23_ImmediateExactlyOnce ==
    (cl.flushInterval = 0 /\ cl.url = "ok") =>
        /\ \A g \in Loggers : \A j \in 1..ReturnedCalls(g) :
             Cardinality(AloneIn(LogLines[g][j])) = 1
        /\ \A k \in DOMAIN wire : Len(Taken[k]) = 1

\* The attempts the claim allows for a batch.
MaxAttempts == 3

\* The flush that took request k has returned.
FlushOver(k) == \A g \in Procs : gs[g].k # k

\* C24 (as claimed): a batch is given up after a network error only when it
\* has been transmitted MaxAttempts times, and is never transmitted more
\* often.
C24_RetriedThreeTimes ==
    \A k \in DOMAIN wire :
        /\ wire[k].tries <= MaxAttempts
        /\ (wire[k].st = "error" /\ FlushOver(k)) => wire[k].tries = MaxAttempts

\* The lines of a batch that can be read from an error flush gives to
\* sendErr: fmt.Errorf("do: %w", err), "expected 200, got %d" and
\* "new request: %w" carry nothing of byt.
LinesIn(err) == <<>>

\* The batches that were dropped: not answered 200, the flush over.
Dropped ==
    { k \in DOMAIN wire :
        wire[k].st \in {"error", "status", "new request"} /\ FlushOver(k) }

\* C25 (as claimed): for every dropped batch there is a record, received
\* from Err(), from which its lines can be read.
C25_DroppedBatchRecorded ==
    \A k \in Dropped : \E j \in DOMAIN recs : LinesIn(recs[j]) = Taken[k]

\* C26 (as claimed): with a flush interval, no call of Log waits at
\* c.mu.Lock() while the mutex is held by a flush that is in c.client.Do.
C26_LogNeverWaitsForDo ==
    cl.flushInterval > 0 =>
        \A g \in Loggers :
            ~(gs[g].pc = "Log" /\ cl.mu # 0 /\ gs[cl.mu].pc = "Do")

\* The goroutines of the client are scheduled, a mutex that is free again
\* and again is got, and c.client.Do returns (the http.Client has a timeout
\* of 10 s); nothing is assumed of the program receiving from Err().
FairClientSpec == ClientSpec /\ \A g \in Procs : SF_vars(ClientStep(g))

\* C27 (as claimed): every call of Log (and so of Write) returns and every
\* flush finishes, the mutex released, also when transmissions fail and no
\* goroutine receives from Err().
C27_CallsReturn ==
    \A g \in Procs : (gs[g].pc # "idle") ~> (gs[g].pc = "idle" /\ cl.mu # g)

\* -------------------------------------------------------------- func main
\* main of cmd/sls once the server listens: gracefulRestart waits for a
\* signal and calls srv.Shutdown with a timeout of one second; the goroutine
\* of srv.ListenAndServe calls log.Fatal on any error it returns; the
\* deferred service.Shutdown runs when main returns.  main.code is the exit
\* status.
Serving == main.pc = "serve"
Draining == main.pc \in {"serve", "Shutdown"}

\* The handlers that http.Server.Shutdown waits for: a POST /log that has
\* not answered, a GET /log that has not returned.
ActivePosts == { r \in Reqs : post[r].pc \in {"range", "chansend", "lock", "write"} }
ActiveTails == { t \in Tails : get[t] \in {"new", "select", "defer"} }

\* The server accepts a request: the listener is open.
Accept ==
    /\ Serving
    /\ \/ \E r \in Reqs : AuthFail(r) \/ DecodeFail(r) \/ \E b \in Batches : Decode(r, b)
       \/ \E t \in Tails : GetAuthFail(t) \/ NewChan(t)

\* The handlers and their goroutines run on while the process lives.
Handle ==
    /\ Draining
    /\ \/ \E r \in Reqs :
            \/ Send(r) \/ RangeNext(r) \/ ChanSend(r)
            \/ Lock(r) \/ WritePiece(r) \/ WriteOK(r) \/ WriteErr(r)
       \/ \E t \in Tails :
            MarkOpen(t) \/ StreamWrite(t) \/ StreamWriteErr(t) \/ Delete(t)

\* gracefulRestart: <-stop, then srv.Shutdown(ctx) closes the listener.
Signal ==
    /\ Serving
    /\ main' = [main EXCEPT !.pc = "Shutdown"]
    /\ UNCHANGED <<svc, store, cl, gs, wire, recs, mt, tg>>

\* srv.ListenAndServe returns http.ErrServerClosed as soon as Shutdown is
\* called: if err != nil { log.Fatal(err) }, which is os.Exit(1).
ServeFatal ==
    /\ main.pc \in {"Shutdown", "return"}
    /\ main' = [pc |-> "exited", code |-> 1]
    /\ UNCHANGED <<svc, store, cl, gs, wire, recs, mt, tg>>

\* srv.Shutdown returns nil: no connection is active any more; main
\* returns.
ShutdownNil ==
    /\ main.pc = "Shutdown"
    /\ ActivePosts = {} /\ ActiveTails = {}
    /\ main' = [main EXCEPT !.pc = "return"]
    /\ UNCHANGED <<svc, store, cl, gs, wire, recs, mt, tg>>

\* srv.Shutdown returns the error of its context after the second, with
\* connections still active: os.Exit(1), and no deferred call runs.
ShutdownTimeout ==
    /\ main.pc = "Shutdown"
    /\ ActivePosts # {} \/ ActiveTails # {}
    /\ main' = [pc |-> "exited", code |-> 1]
    /\ UNCHANGED <<svc, store, cl, gs, wire, recs, mt, tg>>

\* main returns: defer service.Shutdown().
MainDeferred == main.pc = "return" /\ Shutdown

\* The deferred call has returned and the process ends.
MainExit ==
    /\ main.pc = "return"
    /\ down
    /\ main' = [pc |-> "exited", code |-> 0]
    /\ UNCHANGED <<svc, store, cl, gs, wire, recs, mt, tg>>

\* The service of Init with main waiting for a signal.
MainInit ==
    /\ InitService /\ Boot(Day, 0) /\ ClientIdle /\ TargetsIdle
    /\ main = [pc |-> "serve", code |-> 0]

MainNext ==
    \/ Accept
    \/ Handle
    \/ Signal
    \/ ServeFatal
    \/ ShutdownNil
    \/ ShutdownTimeout
    \/ MainDeferred
    \/ MainExit

MainSpec == MainInit /\ [][MainNext]_vars

\* C28 (as claimed): when the process has exited after a signal, no
\* POST /log was cut off between its decoding and its answer, and the active
\* file has been closed.
C28_ExitAfterDrainAndClose ==
    main.pc = "exited" => (ActivePosts = {} /\ ~handles[slog.fi].open)

\* ------------------------------------------------- service with targets
\* The revision of the service that writes each batch to a list of
\* sls.LogTarget (service.go, lines 1-132): one POST /log over srv.targets.
\* mt is the handler: len(srv.targets) (n), its place, the data, the
\* goroutines started (i), the
\* value it received from errs, the error it returned, the status answered
\* (0 for none) and the state of r.Context().  tg[t] is logData for target t:
\* its place, the error of t.Write, what the target holds, and where the
\* handler was when its select ran ("" before).
MaxTargets == 2  \* len(srv.targets)

Targets == 1..mt.n

\* execPostLog: l += "\n" when it has none; data += l.
Data(b) == Flatten([k \in 1..Len(b) |-> SendText(b[k])])

\* logData before the go statement.
IdleTarget == [pc |-> "none", err |-> "", file |-> <<>>, at |-> ""]

\* The handler is blocked in its select and can take a value from errs.
Parked == mt.pc = "select"

\* execPostLog: the body decodes and data is built.
MTDecode(b) ==
    /\ mt.pc = "idle"
    /\ mt' = [mt EXCEPT !.pc = "go", !.data = Data(b)]
    /\ UNCHANGED <<svc, store, cl, gs, wire, recs, main, tg>>

\* execPostLog: the body does not decode; postLog answers.
MTDecodeFail ==
    /\ mt.pc = "idle"
    /\ mt' = [mt EXCEPT !.pc = "done", !.err = "decode body",
                        !.resp = postLog("decode body")]
    /\ UNCHANGED <<svc, store, cl, gs, wire, recs, main, tg>>

\* for _, t := range srv.targets { go logData(t, []byte(data), errs) }
MTGo ==
    /\ mt.pc = "go"
    /\ mt.i < mt.n
    /\ mt' = [mt EXCEPT !.i = @ + 1]
    /\ tg' = [tg EXCEPT ![mt.i + 1].pc = "Write"]
    /\ UNCHANGED <<svc, store, cl, gs, wire, recs, main>>

\* The range is over; the handler enters for { select { ... } }.
MTSelect ==
    /\ mt.pc = "go"
    /\ mt.i = mt.n
    /\ mt' = [mt EXCEPT !.pc = "select"]
    /\ UNCHANGED <<svc, store, cl, gs, wire, recs, main, tg>>

\* logData: t.Write(data) returns nil.
TargetWriteOK(t) ==
    /\ tg[t].pc = "Write"
    /\ tg' = [tg EXCEPT ![t].pc = "send", ![t].file = mt.data]
    /\ UNCHANGED <<svc, store, cl, gs, wire, recs, main, mt>>

\* logData: t.Write(data) returns an error, which is printed.
TargetWriteErr(t) ==
    /\ tg[t].pc = "Write"
    /\ tg' = [tg EXCEPT ![t].pc = "send", ![t].err = "write"]
    /\ UNCHANGED <<svc, store, cl, gs, wire, recs, main, mt>>

\* logData: select { case errs <- err: ... } with the handler blocked in its
\* select: the handler receives err.
TargetSend(t) ==
    /\ tg[t].pc = "send"
    /\ Parked
    /\ tg' = [tg EXCEPT ![t].pc = "done", ![t].at = "select"]
    /\ mt' = [mt EXCEPT !.pc = "recv", !.got = tg[t].err]
    /\ UNCHANGED <<svc, store, cl, gs, wire, recs, main>>

\* logData: select { ... default: } with no receiver ready: err is dropped.
TargetDiscard(t) ==
    /\ tg[t].pc = "send"
    /\ ~Parked
    /\ tg' = [tg EXCEPT ![t].pc = "done", ![t].at = mt.pc]
    /\ UNCHANGED <<svc, store, cl, gs, wire, recs, main, mt>>

\* case err := <-errs: err is nil, and the loop goes round.
MTRecvNil ==
    /\ mt.pc = "recv"
    /\ mt.got = ""
    /\ mt' = [mt EXCEPT !.pc = "select"]
    /\ UNCHANGED <<svc, store, cl, gs, wire, recs, main, tg>>

\* case err := <-errs: if err != nil { return err }; postLog answers.
MTRecvErr ==
    /\ mt.pc = "recv"
    /\ mt.got # ""
    /\ mt' = [mt EXCEPT !.pc = "done", !.err = mt.got, !.resp = postLog(mt.got)]
    /\ UNCHANGED <<svc, store, cl, gs, wire, recs, main, tg>>

\* The client closes the connection: the context of the request is done.
CtxDone ==
    /\ mt.pc # "done"
    /\ mt.ctx = "live"
    /\ mt' = [mt EXCEPT !.ctx = "done"]
    /\ UNCHANGED <<svc, store, cl, gs, wire, recs, main, tg>>

\* case <-ctx.Done(): return ctx.Err(); postLog answers to a client that is
\* gone.
MTCtxDone ==
    /\ mt.pc = "select"
    /\ mt.ctx = "done"
    /\ mt' = [mt EXCEPT !.pc = "done", !.err = "context canceled",
                        !.resp = postLog("context canceled")]
    /\ UNCHANGED <<svc, store, cl, gs, wire, recs, main, tg>>

\* A service over zero targets or more, and one request.
MTInit ==
    /\ InitService /\ Boot(Day, 0) /\ ClientIdle /\ MainIdle
    /\ \E n \in 0..MaxTargets :
         mt = [n |-> n, pc |-> "idle", data |-> <<>>, i |-> 0, got |-> "",
               err |-> "", resp |-> 0, ctx |-> "live"]
    /\ tg = [t \in 1..MaxTargets |-> IdleTarget]

MTHandler ==
    \/ \E b \in Batches : MTDecode(b)
    \/ MTDecodeFail
    \/ MTGo
    \/ MTSelect
    \/ MTRecvNil
    \/ MTRecvErr
    \/ MTCtxDone

MTTarget(t) ==
    \/ TargetWriteOK(t)
    \/ TargetWriteErr(t)
    \/ TargetSend(t)
    \/ TargetDiscard(t)

MTNext ==
    \/ MTHandler
    \/ \E t \in 1..MaxTargets : MTTarget(t)
    \/ CtxDone

MTSpec == MTInit /\ [][MTNext]_vars

\* The handler and the logData goroutines are scheduled; nothing is assumed
\* of the client.
FairMTSpec == MTSpec /\ WF_vars(MTHandler) /\ \A t \in 1..MaxTargets : WF_vars(MTTarget(t))

\* The body has decoded and every target has been written without error.
AllWritten ==
    /\ mt.pc \notin {"idle", "done"} \/ (mt.pc = "done" /\ mt.err # "decode body")
    /\ mt.i = mt.n
    /\ \A t \in Targets : tg[t].pc \in {"send", "done"} /\ tg[t].err = ""

\* C29 (as claimed): once every target has been written the request is
\* answered 200, unless the client has gone.
C29_AnsweredOK == AllWritten ~> (mt.resp = 200 \/ mt.ctx = "done")

\* C30 (as claimed): the error of a failed t.Write is given to the handler,
\* or dropped only after the handler has returned; and when a write has
\* failed and the handler has returned, the answer is 500.
C30_FailureReachesHandler ==
    \A t \in Targets :
        (tg[t].pc = "done" /\ tg[t].err # "") =>
            /\ tg[t].at \in {"select", "done"}
            /\ mt.pc = "done" => mt.resp = 500


\* ------------------------------------------------- table lock (log_chans.go)
\* C31: operations on the table of logChans exclude one another: NewChan and
\* Delete never change the table while a Send is ranging over it.
C31_TableNotModifiedWhileRanged == [][chans' # chans => Ranging = {}]_vars


\* ------------------------------------------------ rotation age (logfile.go)
\* now - created of the active Logfile, as Old computes it.
Age == clock - slog.created

\* C32 (as claimed): rotateLogfile goes on to replace the active file exactly
\* when its age is 24 hours or more, an age of exactly 24 hours included, and
\* srv.logfile is replaced only then.
C32_RotatesAtTwentyFourHours ==
    [][/\ RotateCheck => (rot'.pc = "lock" <=> Age >= Day)
       /\ RotateCheck /\ Age < Day => (rot'.pc = "wait" /\ UNCHANGED <<disk, handles, slog>>)
       /\ slog' # slog => (rot.pc = "lock" /\ Age >= Day)]_vars

\* C32: rotateLogfile goes on to replace the active file exactly when its
\* age is more than 24 hours; at an age of exactly 24 hours or less it
\* returns and changes nothing; srv.logfile is replaced only for a file found
\* older than 24 hours, and then by the Logfile that NewLogfile returns.
C32_RotatesWhenOlderThanTwentyFourHours ==
    [][/\ RotateCheck => (rot'.pc = "lock" <=> Age > Day)
       /\ RotateCheck /\ Age <= Day => (rot'.pc = "wait" /\ UNCHANGED <<disk, handles, slog>>)
       /\ slog' # slog => (rot.pc = "lock" /\ Age > Day /\ slog' = NewLogfile(handles, clock, zone))]_vars

\* C32 witness: the service booted at midnight UTC; the call at the first
\* tick found the file exactly 24 hours old and left it, and the call at the
\* second tick has replaced it.
C32_Witness ==
    /\ zone = 0
    /\ handles[1].name = 1
    /\ rot = [pc |-> "wait", due |-> 4 * Day]
    /\ clock = 3 * Day
    /\ slog = [fi |-> 2, created |-> 3 * Day]


\* -------------------------------------- retention and the active file
\* srv.logfile.Name(): the file NewLogfile opened, named for its date.
ActiveName == FileName(slog.created, 0)

\* C33 (as claimed): for a horizon of one day or more, deleteOldFiles never
\* removes the file srv.logfile writes to, whatever rotateLogfile returned:
\* the active file is in the directory at all times.
C33_ActiveFileNotDeleted == ActiveName \in dir


\* ------------------------------------------------------ one file per day
\* Request r appends a piece of its data to a file in this step.
Appends(r) == WritePieceS(r) \/ (WriteOKS(r) /\ disk' # disk)

\* C34 (as claimed): whenever a batch is appended, the file it goes to is
\* the one named for the current day, so that the file of day D holds only
\* lines received on day D.
C34_StoredUnderDayReceived ==
    [][\A r \in Reqs :
          Appends(r) => handles[WriteHandle(r)].name = LocalDate(clock, zone)]_vars


\* ------------------------------------------- the disk log target (disk.File)
\* disk.New and File.rotate.  Here slog holds the fields fi and created of
\* the File, handles the os.Files with the flags they were opened with, dir
\* the .log files of the directory, and rot the goroutine that calls New:
\* where it is, the argument now of rotate, which branch of rotate printed,
\* and the frames of File.Name on its stack.
MaxStack == 3    \* frames of File.Name at which the runtime gives up

DiskStart == DaysFromCivil(2024, 1, 3) * Day
DiskEnd == DiskStart + 2 * Day

\* name(t): the date of t in UTC as YYYYMMDD.
DateName(t) == FileName(t, 0)

\* The goroutine before it calls New.
IdleFile == [pc |-> "new", now |-> 0, branch |-> "", depth |-> 0, err |-> ""]

\* New: now := time.Now().UTC(); os.OpenFile(filename, O_CREATE|O_APPEND|
\* O_WRONLY) succeeds; f.created = now (not truncated); f.rotate(now) is
\* called.
FileNew ==
    /\ rot.pc = "new"
    /\ dir' = dir \cup {DateName(clock)}
    /\ handles' = Append(handles, [name |-> DateName(clock), open |-> TRUE,
                                   flag |-> "O_APPEND|O_WRONLY"])
    /\ slog' = [fi |-> Len(handles) + 1, created |-> clock]
    /\ rot' = [rot EXCEPT !.pc = "rotate", !.now = clock]
    /\ UNCHANGED <<svc, clock, zone, disk, down, ret, ext>>

\* New: os.OpenFile fails; return nil, "open: ...".
FileNewErr ==
    /\ rot.pc = "new"
    /\ rot' = [rot EXCEPT !.pc = "error", !.err = "open"]
    /\ UNCHANGED <<svc, clock, zone, disk, handles, slog, down, dir, ret, ext>>

\* rotate: if !f.old() { f.log.Printf("writing to %s\n", f.Name()) ...: the
\* argument f.Name() is evaluated first.
rotateNotOld ==
    /\ rot.pc = "rotate"
    /\ ~Old(slog, clock)
    /\ rot' = [rot EXCEPT !.pc = "name", !.branch = "writing to", !.depth = 1]
    /\ UNCHANGED <<svc, clock, zone, disk, handles, slog, down, dir, ret, ext>>

\* rotate over an old File: f.log.Printf("old logfile, rotating out %s\n",
\* f.Name()), before f.mu.Lock(): the argument f.Name() is evaluated first.
rotateOld ==
    /\ rot.pc = "rotate"
    /\ Old(slog, clock)
    /\ rot' = [rot EXCEPT !.pc = "name", !.branch = "rotating out", !.depth = 1]
    /\ UNCHANGED <<svc, clock, zone, disk, handles, slog, down, dir, ret, ext>>

\* func (f *File) Name() string { return f.Name() }: the body calls the
\* method itself, one more frame.
NameCall ==
    /\ rot.pc = "name"
    /\ rot.depth < MaxStack
    /\ rot' = [rot EXCEPT !.depth = @ + 1]
    /\ UNCHANGED <<svc, clock, zone, disk, handles, slog, down, dir, ret, ext>>

\* The stack of the goroutine has reached its limit: the runtime ends the
\* process ("fatal error: stack overflow").
StackOverflow ==
    /\ rot.pc = "name"
    /\ rot.depth = MaxStack
    /\ rot' = [rot EXCEPT !.pc = "fatal"]
    /\ UNCHANGED <<svc, clock, zone, disk, handles, slog, down, dir, ret, ext>>

\* Time passes.
DiskTick ==
    /\ clock < DiskEnd
    /\ clock' = clock + 1
    /\ UNCHANGED <<svc, zone, disk, handles, slog, rot, down, dir, ret, ext>>

\* main calls disk.New at some instant of 2024-01-03 over a directory that
\* holds some .log files.
DiskInit ==
    /\ InitService /\ ExtIdle
    /\ zone = 0 /\ disk = <<>> /\ handles = <<>> /\ slog = [fi |-> 0, created |-> 0]
    /\ down = FALSE /\ ret = IdleRun
    /\ clock \in { DiskStart + h : h \in 0..(Day - 1) }
    /\ dir \in { S \in SUBSET Names : Cardinality(S) <= MaxFiles - 1 }
    /\ rot = IdleFile

DiskNext ==
    \/ FileNew
    \/ FileNewErr
    \/ rotateNotOld
    \/ rotateOld
    \/ NameCall
    \/ StackOverflow
    \/ DiskTick

DiskSpec == DiskInit /\ [][DiskNext]_vars

\* C35 (as claimed): rotate(now) completes, over an old File and over one
\* that is not old: the call never ends in a fatal error of the runtime, and
\* File.Name, which both branches call, returns without calling itself.
C35_RotateCompletes == rot.pc # "fatal" /\ (rot.pc = "name" => rot.depth <= 1)

====
